---- MODULE Spec2Model ----
(***************************************************************************)
(* Model of internal/zfs/encryption.go: the process-wide, once-only cache  *)
(* of the `zfs load-key` feature probe (EncryptionCLISupported) and the    *)
(* two gate functions built on it (ZFSGetEncryptionEnabled and             *)
(* ZFSGetKeyUnloaded).                                                     *)
(*                                                                         *)
(* Goroutines are the elements of Procs.  Each one makes calls to the      *)
(* three public functions; a call advances through the program points of   *)
(* the function it runs (pc).  Go errors are modelled as the sequence of   *)
(* their message layers, outermost first; the nil error is <<>>.           *)
(***************************************************************************)
EXTENDS Integers, Sequences, FiniteSets, TLC

\* ---------------------------------------------------------------- bounds
NumProcs == 2
MaxCalls == 2

Procs == 1..NumProcs
NoProc == 0

\* ------------------------------------------------------ inputs of the model
\* the three public functions
Ops == {"EncryptionCLISupported", "ZFSGetEncryptionEnabled", "ZFSGetKeyUnloaded"}

\* dataset names handed to the gate functions; InvalidFs fail name validation
ValidFs == {"pool/ds"}
InvalidFs == {""}
FsNames == ValidFs \cup InvalidFs

\* ZREPL_EXPERIMENTAL_ZFS_ENCRYPTION_CLI_SUPPORTED in the environment
Overrides == {"unset", "true", "false"}

\* combined stdout/stderr of `zfs load-key`
Outputs == {"", "unrecognized command 'load-key'", "keylocation=prompt",
            "usage: load-key [-L <keylocation>]"}

\* how cmd.CombinedOutput() ended:
\*   ok     - exit status 0, err == nil
\*   exit   - *exec.ExitError with Exited() (non-zero exit status)
\*   signal - *exec.ExitError without Exited() (killed by a signal)
\*   spawn  - any other error: the binary could not be started
\*   ctx    - ctx.Err(): the caller's context was cancelled or timed out
CmdOutcomes == {"ok", "exit", "signal", "spawn", "ctx"}

\* values of the `encryption` and `keystatus` properties
EncVals == {"", "-", "off", "aes-256-gcm"}
KeyVals == {"", "-", "available", "unavailable"}

\* ------------------------------------------------------------------ errors
Nil == <<>>

\* github.com/pkg/errors.Wrap: nil stays nil
Wrap(e, msg) == IF e = Nil THEN Nil ELSE <<msg>> \o e

\* github.com/pkg/errors.New
New(msg) == <<msg>>

\* the error value of a command outcome
CmdErr(k) == IF k = "ok" THEN Nil ELSE <<k>>

\* err.(*exec.ExitError) succeeds
IsExitError(k) == k \in {"exit", "signal"}

\* (*exec.ExitError).Exited()
Exited(k) == k = "exit"

\* strings.Contains
Contains(s, sub) ==
    \E i \in 1..(Len(s) - Len(sub) + 1) : SubSeq(s, i, i + Len(sub) - 1) = sub

VARIABLES
    once_done,   \* encryptionCLISupport.once: f has run to completion
    once_m,      \* encryptionCLISupport.once: holder of its mutex, or NoProc
    supported,   \* encryptionCLISupport.supported
    err,         \* encryptionCLISupport.err
    override,    \* the environment override
    probes,      \* number of `zfs load-key` subprocesses started so far
    prober,      \* the goroutine that ran the probe closure last, or NoProc
    ncalls,      \* number of calls started so far
    crashed,     \* an unrecovered panic has ended the process
    pc,          \* program point of each goroutine
    op,          \* function the goroutine is calling
    fs,          \* its fs argument
    output,      \* local `output` of the probe closure, kept after it returns
    cmderr,      \* local `err` of the probe closure (a command outcome), kept too
    validated,   \* validateZFSFilesystem was called by this call
    nquery,      \* number of zfsGet calls made by this call
    qres,        \* result of the zfsGet of this call
    ret          \* what the call returned

shared == <<once_done, once_m, supported, err>>
probeLocals == <<output, cmderr>>
gateLocals == <<validated, nquery, qres>>
vars == <<once_done, once_m, supported, err, override, probes, prober, ncalls, crashed,
          pc, op, fs, output, cmderr, validated, nquery, qres, ret>>

NoRet == [kind |-> "none", b |-> FALSE, err |-> Nil]
NoQuery == [st |-> "none", val |-> ""]

Init ==
    /\ once_done = FALSE
    /\ once_m = NoProc
    /\ supported = FALSE
    /\ err = Nil
    /\ override \in Overrides
    /\ probes = 0
    /\ prober = NoProc
    /\ ncalls = 0
    /\ crashed = FALSE
    /\ pc = [p \in Procs |-> "idle"]
    /\ op = [p \in Procs |-> "EncryptionCLISupported"]
    /\ fs = [p \in Procs |-> ""]
    /\ output = [p \in Procs |-> ""]
    /\ cmderr = [p \in Procs |-> "ok"]
    /\ validated = [p \in Procs |-> FALSE]
    /\ nquery = [p \in Procs |-> 0]
    /\ qres = [p \in Procs |-> NoQuery]
    /\ ret = [p \in Procs |-> NoRet]

\* a goroutine calls one of the three public functions
Call(p) ==
    /\ ~crashed
    /\ pc[p] \in {"idle", "done"}
    /\ ncalls < MaxCalls
    /\ ncalls' = ncalls + 1
    /\ \E o \in Ops, f \in FsNames :
        /\ op' = [op EXCEPT ![p] = o]
        /\ fs' = [fs EXCEPT ![p] = IF o = "EncryptionCLISupported" THEN "" ELSE f]
    /\ pc' = [pc EXCEPT ![p] = "once"]
    /\ validated' = [validated EXCEPT ![p] = FALSE]
    /\ nquery' = [nquery EXCEPT ![p] = 0]
    /\ qres' = [qres EXCEPT ![p] = NoQuery]
    /\ ret' = [ret EXCEPT ![p] = NoRet]
    /\ UNCHANGED <<shared, override, probes, prober, crashed, probeLocals>>

\* ------------------------------------------------- EncryptionCLISupported
\* variant: the fast path also returns while another goroutine is still in f
OnceFastDone_WhileRunning == once_done \/ once_m # NoProc

\* sync.Once.Do, fast path: f has completed, return without locking
OnceFastDone == once_done

\* variant: done is tested and set without the mutex
OnceBlocked_NoMutex == FALSE

\* sync.Once.Do, slow path: Lock() blocks while another goroutine is in Do
OnceBlocked == once_m # NoProc

\* variant: `!ok ||` is missing, only a signalled command is a hard error
HardError_SignalOnly(k) == IsExitError(k) /\ ~Exited(k)

\* variant: `!ee.Exited()` is missing, every *exec.ExitError is a hard error
HardError_AnyExitError(k) == ~IsExitError(k) \/ IsExitError(k)

\* line 27: the command did not end with an exit status
HardError(k) == ~IsExitError(k) \/ (IsExitError(k) /\ ~Exited(k))

\* lines 27-29: the value of encryptionCLISupport.err after the check
ProbeErr(k, old) ==
    IF HardError(k)
    THEN Wrap(CmdErr(k), "native encryption cli support feature check failed")
    ELSE old

\* variant: either substring is enough
DefaultSupported_Either(out) == Contains(out, "load-key") \/ Contains(out, "keylocation")

\* line 30: def
DefaultSupported(out) == Contains(out, "load-key") /\ Contains(out, "keylocation")

\* envconst.Bool: the override when it is set, the default otherwise
envconst_Bool(ov, def) == IF ov = "unset" THEN def ELSE ov = "true"

\* a command that never ran printed nothing
OutputsFor(k) == IF k \in {"spawn", "ctx"} THEN {""} ELSE Outputs

\* variant: a failed probe is not remembered, the next caller runs f again
OnceSlowDone_RetryAfterError == once_done /\ err = Nil

\* sync.Once.Do, slow path: done is looked at again under the mutex
OnceSlowDone == once_done

\* line 23: entry of once.Do
OnceEnter(p) ==
    /\ ~crashed
    /\ pc[p] = "once"
    /\ pc' = [pc EXCEPT ![p] = IF OnceFastDone THEN "read" ELSE "lock"]
    /\ UNCHANGED <<shared, override, probes, prober, ncalls, crashed, op, fs,
                   probeLocals, gateLocals, ret>>

\* variant: a caller that finds done set under the mutex leaves Do without
\* unlocking it
OnceDoSlow_NoUnlock(p) ==
    /\ ~crashed
    /\ pc[p] = "lock"
    /\ ~OnceBlocked
    /\ once_m' = p
    /\ pc' = [pc EXCEPT ![p] = IF OnceSlowDone THEN "read" ELSE "probe"]
    /\ UNCHANGED <<once_done, supported, err, override, probes, prober, ncalls, crashed,
                   op, fs, probeLocals, gateLocals, ret>>

\* line 23: slow path of once.Do: take the mutex and look at done again
OnceDoSlow(p) ==
    /\ ~crashed
    /\ pc[p] = "lock"
    /\ ~OnceBlocked
    /\ IF OnceSlowDone
       THEN /\ pc' = [pc EXCEPT ![p] = "read"]
            /\ UNCHANGED once_m
       ELSE /\ pc' = [pc EXCEPT ![p] = "probe"]
            /\ once_m' = p
    /\ UNCHANGED <<once_done, supported, err, override, probes, prober, ncalls, crashed,
                   op, fs, probeLocals, gateLocals, ret>>

\* lines 25-26: run `zfs load-key` and collect its output
ProbeRun(p) ==
    /\ ~crashed
    /\ pc[p] = "probe"
    /\ probes' = probes + 1
    /\ prober' = p
    /\ \E k \in CmdOutcomes : \E out \in OutputsFor(k) :
        /\ cmderr' = [cmderr EXCEPT ![p] = k]
        /\ output' = [output EXCEPT ![p] = out]
    /\ pc' = [pc EXCEPT ![p] = "seterr"]
    /\ UNCHANGED <<shared, override, ncalls, crashed, op, fs, gateLocals, ret>>

\* lines 27-29: record a hard error
ProbeSetErr(p) ==
    /\ ~crashed
    /\ pc[p] = "seterr"
    /\ err' = ProbeErr(cmderr[p], err)
    /\ pc' = [pc EXCEPT ![p] = "setsupp"]
    /\ UNCHANGED <<once_done, once_m, supported, override, probes, prober, ncalls, crashed,
                   op, fs, probeLocals, gateLocals, ret>>

\* lines 30-31: record the support flag
ProbeSetSupported(p) ==
    /\ ~crashed
    /\ pc[p] = "setsupp"
    /\ supported' = envconst_Bool(override, DefaultSupported(output[p]))
    /\ pc' = [pc EXCEPT ![p] = "unlock"]
    /\ UNCHANGED <<once_done, once_m, err, override, probes, prober, ncalls, crashed,
                   op, fs, probeLocals, gateLocals, ret>>

\* variant: done is set but the mutex is not released
OnceFinish_KeepLock(p) ==
    /\ ~crashed
    /\ pc[p] = "unlock"
    /\ once_done' = TRUE
    /\ pc' = [pc EXCEPT ![p] = "read"]
    /\ UNCHANGED <<once_m, supported, err, override, probes, prober, ncalls, crashed,
                   op, fs, probeLocals, gateLocals, ret>>

\* line 33: f returns; once.Do sets done and releases the mutex
OnceFinish(p) ==
    /\ ~crashed
    /\ pc[p] = "unlock"
    /\ once_done' = TRUE
    /\ once_m' = NoProc
    /\ pc' = [pc EXCEPT ![p] = "read"]
    /\ UNCHANGED <<supported, err, override, probes, prober, ncalls, crashed,
                   op, fs, probeLocals, gateLocals, ret>>

\* line 34: EncryptionCLISupported returns the cached pair to its caller
ReturnCached(p) ==
    /\ ~crashed
    /\ pc[p] = "read"
    /\ op[p] = "EncryptionCLISupported"
    /\ ret' = [ret EXCEPT ![p] = [kind |-> "return", b |-> supported, err |-> err]]
    /\ pc' = [pc EXCEPT ![p] = "done"]
    /\ UNCHANGED <<shared, override, probes, prober, ncalls, crashed, op, fs,
                   probeLocals, gateLocals>>

\* ------------------------------------------------------ the gate functions
Gates == {"ZFSGetEncryptionEnabled", "ZFSGetKeyUnloaded"}

\* the property a gate function asks for
PropOf(o) == IF o = "ZFSGetEncryptionEnabled" THEN "encryption" ELSE "keystatus"

\* the values zfs can report for a property
ValsOf(o) == IF o = "ZFSGetEncryptionEnabled" THEN EncVals ELSE KeyVals

\* lines 41 and 83: the text the deferred function puts in front of an error
DeferMsg(o) ==
    IF o = "ZFSGetEncryptionEnabled"
    THEN "zfs get encryption enabled fs="
    ELSE "zfs get key loaded fs="

\* lines 39-43 and 81-85: the deferred function rewrites a non-nil error
DeferWrap(o, f, er) == IF er # Nil THEN <<DeferMsg(o), f>> \o er ELSE Nil

\* a normal return of a gate function, after its deferred function has run
GateReturn(o, f, b, er) == [kind |-> "return", b |-> b, err |-> DeferWrap(o, f, er)]

\* a panic leaving a gate function
GatePanic == [kind |-> "panic", b |-> FALSE, err |-> Nil]

\* variant: the supported flag is tested before the error
GateDecision_FlagFirst(su, er) ==
    IF ~su THEN "unsupported"
    ELSE IF er # Nil THEN "error"
    ELSE "continue"

\* variant: no short-circuit when the capability is absent
GateDecision_NoShortCircuit(su, er) == IF er # Nil THEN "error" ELSE "continue"

\* lines 44-48 and 86-90: what the capability check decides
GateDecision(su, er) ==
    IF er # Nil THEN "error"
    ELSE IF ~su THEN "unsupported"
    ELSE "continue"

\* variant: the name is never validated
ValidatesName_Never(o) == FALSE

\* lines 50-52: only ZFSGetEncryptionEnabled validates its fs argument
ValidatesName(o) == o = "ZFSGetEncryptionEnabled"

\* validateZFSFilesystem: the name validation collaborator
validateZFSFilesystem(f) ==
    IF f \in InvalidFs THEN New("invalid filesystem name") ELSE Nil

\* zfsGet: the ways the property query can end for the dataset name f;
\* it can fail for every name, and only an existing dataset has values
zfsGet(o, f) ==
    {[st |-> "failed", val |-> ""], [st |-> "cancelled", val |-> ""]}
        \cup (IF f \in ValidFs THEN {[st |-> "ok", val |-> v] : v \in ValsOf(o)} ELSE {})

\* lines 56 and 94: the wrapped query failure (messages without their quotes)
QueryFailure(o, st) ==
    Wrap(New(IF st = "cancelled" THEN "context canceled" ELSE "zfs get failed"),
         IF o = "ZFSGetEncryptionEnabled"
         THEN "cannot get encryption property"
         ELSE "cannot get keystatus property")

\* variant: the case "-" reports its error together with enabled = true
InterpretEncryption_DashTrue(v) ==
    CASE v = ""    -> [kind |-> "panic", b |-> FALSE, err |-> Nil]
      [] v = "-"   -> [kind |-> "return", b |-> TRUE,
                       err |-> New("encryption property should never be -")]
      [] v = "off" -> [kind |-> "return", b |-> FALSE, err |-> Nil]
      [] OTHER     -> [kind |-> "return", b |-> TRUE, err |-> Nil]

\* variant: the case "-" is missing and falls into the default
InterpretEncryption_NoDash(v) ==
    CASE v = ""    -> [kind |-> "panic", b |-> FALSE, err |-> Nil]
      [] v = "off" -> [kind |-> "return", b |-> FALSE, err |-> Nil]
      [] OTHER     -> [kind |-> "return", b |-> TRUE, err |-> Nil]

\* lines 59-71: the switch of ZFSGetEncryptionEnabled, before the deferred wrap
InterpretEncryption(v) ==
    CASE v = ""    -> [kind |-> "panic", b |-> FALSE, err |-> Nil]
      [] v = "-"   -> [kind |-> "return", b |-> FALSE,
                       err |-> New("encryption property should never be -")]
      [] v = "off" -> [kind |-> "return", b |-> FALSE, err |-> Nil]
      [] OTHER     -> [kind |-> "return", b |-> TRUE, err |-> Nil]

\* variant: an unknown key status counts as unloaded instead of panicking
InterpretKeystatus_DefaultUnloaded(v) ==
    CASE v = ""            -> [kind |-> "panic", b |-> FALSE, err |-> Nil]
      [] v = "available"   -> [kind |-> "return", b |-> FALSE, err |-> Nil]
      [] OTHER             -> [kind |-> "return", b |-> TRUE, err |-> Nil]

\* variant: the case "" is missing and falls into "available"
InterpretKeystatus_EmptyLoaded(v) ==
    CASE v \in {"", "available"} -> [kind |-> "return", b |-> FALSE, err |-> Nil]
      [] v = "unavailable"       -> [kind |-> "return", b |-> TRUE, err |-> Nil]
      [] OTHER                   -> [kind |-> "panic", b |-> FALSE, err |-> Nil]

\* lines 97-106: the switch of ZFSGetKeyUnloaded, before the deferred wrap
InterpretKeystatus(v) ==
    CASE v = ""            -> [kind |-> "panic", b |-> FALSE, err |-> Nil]
      [] v = "available"   -> [kind |-> "return", b |-> FALSE, err |-> Nil]
      [] v = "unavailable" -> [kind |-> "return", b |-> TRUE, err |-> Nil]
      [] OTHER             -> [kind |-> "panic", b |-> FALSE, err |-> Nil]

\* variant: the error of zfsGet is not looked at, the value is interpreted
Interpret_IgnoreError(o, q) ==
    IF o = "ZFSGetEncryptionEnabled"
    THEN InterpretEncryption(q.val)
    ELSE InterpretKeystatus(q.val)

\* variant: the answer of an earlier call of the same function is kept and
\* given again instead of looking at the value just queried
Interpret_Cached(o, q) ==
    LET earlier == {r \in Procs : op[r] = o /\ qres[r].st = "ok"
                                   /\ ret[r].kind = "return" /\ ret[r].err = Nil}
    IN IF q.st = "ok" /\ earlier # {}
       THEN ret[CHOOSE r \in earlier : TRUE]
       ELSE IF q.st # "ok"
            THEN [kind |-> "return", b |-> FALSE, err |-> QueryFailure(o, q.st)]
            ELSE IF o = "ZFSGetEncryptionEnabled"
                 THEN InterpretEncryption(q.val)
                 ELSE InterpretKeystatus(q.val)

\* lines 54-71 and 92-106: the outcome of the function body for a query result
Interpret(o, q) ==
    IF q.st # "ok"
    THEN [kind |-> "return", b |-> FALSE, err |-> QueryFailure(o, q.st)]
    ELSE IF o = "ZFSGetEncryptionEnabled"
         THEN InterpretEncryption(q.val)
         ELSE InterpretKeystatus(q.val)

\* the call of p ends with the result r of the function body
Finish(p, r) ==
    /\ ret' = [ret EXCEPT ![p] =
                 IF r.kind = "return" THEN GateReturn(op[p], fs[p], r.b, r.err) ELSE GatePanic]
    /\ pc' = [pc EXCEPT ![p] = IF r.kind = "return" THEN "done" ELSE "panic"]

\* lines 34, 44-52 and 86-90: the gate function gets the cached pair, checks
\* the capability and validates the name
GateCheck(p) ==
    /\ ~crashed
    /\ pc[p] = "read"
    /\ op[p] \in Gates
    /\ LET d == GateDecision(supported, err)
           v == validateZFSFilesystem(fs[p])
       IN CASE d = "error" ->
                 /\ Finish(p, [kind |-> "return", b |-> FALSE, err |-> err])
                 /\ UNCHANGED validated
            [] d = "unsupported" ->
                 /\ Finish(p, [kind |-> "return", b |-> FALSE, err |-> Nil])
                 /\ UNCHANGED validated
            [] d = "continue" /\ ValidatesName(op[p]) ->
                 /\ validated' = [validated EXCEPT ![p] = TRUE]
                 /\ IF v # Nil
                    THEN Finish(p, [kind |-> "return", b |-> FALSE, err |-> v])
                    ELSE /\ pc' = [pc EXCEPT ![p] = "query"]
                         /\ UNCHANGED ret
            [] OTHER ->
                 /\ pc' = [pc EXCEPT ![p] = "query"]
                 /\ UNCHANGED <<validated, ret>>
    /\ UNCHANGED <<shared, override, probes, prober, ncalls, crashed, op, fs,
                   probeLocals, nquery, qres>>

\* lines 54-71 and 92-106: query the property and interpret its value
Query(p) ==
    /\ ~crashed
    /\ pc[p] = "query"
    /\ nquery' = [nquery EXCEPT ![p] = @ + 1]
    /\ \E q \in zfsGet(op[p], fs[p]) :
          /\ qres' = [qres EXCEPT ![p] = q]
          /\ Finish(p, Interpret(op[p], q))
    /\ UNCHANGED <<shared, override, probes, prober, ncalls, crashed, op, fs,
                   probeLocals, validated>>

\* the caller of the gate function recovers the panic
Recover(p) ==
    /\ ~crashed
    /\ pc[p] = "panic"
    /\ pc' = [pc EXCEPT ![p] = "done"]
    /\ UNCHANGED <<shared, override, probes, prober, ncalls, crashed, op, fs,
                   probeLocals, gateLocals, ret>>

\* nobody recovers the panic: the Go runtime ends the process
Crash(p) ==
    /\ ~crashed
    /\ pc[p] = "panic"
    /\ crashed' = TRUE
    /\ UNCHANGED <<shared, override, probes, prober, ncalls, pc, op, fs,
                   probeLocals, gateLocals, ret>>

Next ==
    \/ \E p \in Procs : Call(p)
    \/ \E p \in Procs : OnceEnter(p)
    \/ \E p \in Procs : OnceDoSlow(p)
    \/ \E p \in Procs : ProbeRun(p)
    \/ \E p \in Procs : ProbeSetErr(p)
    \/ \E p \in Procs : ProbeSetSupported(p)
    \/ \E p \in Procs : OnceFinish(p)
    \/ \E p \in Procs : ReturnCached(p)
    \/ \E p \in Procs : GateCheck(p)
    \/ \E p \in Procs : Query(p)
    \/ \E p \in Procs : Recover(p)
    \/ \E p \in Procs : Crash(p)

Spec == Init /\ [][Next]_vars

\* the Go scheduler runs every runnable goroutine, the mutex of the once is
\* handed to a waiter once it is free, and the `zfs` subprocesses of the
\* probe and of the queries terminate
Fairness ==
    \A p \in Procs :
        /\ WF_vars(OnceEnter(p))
        /\ WF_vars(OnceDoSlow(p))
        /\ WF_vars(ProbeRun(p))
        /\ WF_vars(ProbeSetErr(p))
        /\ WF_vars(ProbeSetSupported(p))
        /\ WF_vars(OnceFinish(p))
        /\ WF_vars(ReturnCached(p))
        /\ WF_vars(GateCheck(p))
        /\ WF_vars(Query(p))

FairSpec == Spec /\ Fairness

\* ------------------------------------------------------------- properties
\* the gate call of p has got past its capability check
PastGate(p) == op[p] \in Gates /\ pc[p] \in {"query", "panic", "done"}

\* the call of p has ended, by a return or by a panic
Completed(p) == pc[p] \in {"panic", "done"}

\* the probe closure has written both fields of the Capability State
ProbeStored == prober # NoProc /\ (once_done \/ pc[prober] = "unlock")

\* the message the probe puts in front of a hard error (line 28)
ProbeMsg == "native encryption cli support feature check failed"

\* C1: however the calls to the three public functions interleave, the
\* `zfs load-key` subprocess is started at most once.
C1_ProbeAtMostOnce == probes <= 1

\* a second goroutine waits in once.Do while the first is about to leave it
C1_Witness ==
    /\ probes = 1
    /\ \E p, q \in Procs : p # q /\ pc[p] = "unlock" /\ pc[q] = "lock"

\* C2: when the probe reports unsupported (flag false, no error), a gate
\* function returns (false, nil) for every dataset name, valid or not, and
\* issues no property query.
C2_UnsupportedShortCircuit ==
    \A p \in Procs :
        (PastGate(p) /\ ~supported /\ err = Nil) =>
            /\ pc[p] = "done"
            /\ ret[p] = [kind |-> "return", b |-> FALSE, err |-> Nil]
            /\ nquery[p] = 0
            /\ qres[p] = NoQuery

\* both gate functions have short-circuited, one of them for an invalid name
C2_Witness ==
    /\ once_done /\ ~supported /\ err = Nil
    /\ \E p, q \in Procs :
        /\ op[p] = "ZFSGetEncryptionEnabled" /\ fs[p] \in InvalidFs /\ pc[p] = "done"
        /\ op[q] = "ZFSGetKeyUnloaded" /\ fs[q] \in ValidFs /\ pc[q] = "done"

\* every caller that has left once.Do did so after the first execution
\* completed, and a returned pair is the stored pair
C3_Returned ==
    \A p \in Procs :
        /\ pc[p] \in {"read", "query", "panic", "done"} => once_done
        /\ (op[p] = "EncryptionCLISupported" /\ ret[p].kind = "return") =>
               (ret[p].b = supported /\ ret[p].err = err)

\* once the first execution has completed, the stored pair stays as it is
C3_Stable == once_done => (once_done' /\ supported' = supported /\ err' = err)

\* C3: every call to EncryptionCLISupported returns the pair the first
\* execution stored: no caller leaves once.Do before that execution has
\* completed, and the stored pair never changes afterwards.
C3_SameStoredPair == []C3_Returned /\ [][C3_Stable]_vars

\* two goroutines have got the same pair, with a hard error and the flag set
C3_Witness ==
    \E p, q \in Procs :
        /\ p # q
        /\ op[p] = "EncryptionCLISupported" /\ op[q] = "EncryptionCLISupported"
        /\ ret[p].kind = "return" /\ ret[q] = ret[p]
        /\ ret[p].b /\ ret[p].err # Nil

\* C4: after a successful `encryption` query, ZFSGetEncryptionEnabled returns
\* (false, nil) for "off", (false, error) for "-" and (true, nil) for every
\* other non-empty value.
C4_EncryptionValue ==
    \A p \in Procs :
        (op[p] = "ZFSGetEncryptionEnabled" /\ qres[p].st = "ok") =>
            /\ supported /\ err = Nil /\ fs[p] \in ValidFs
            /\ qres[p].val = "off" =>
                   ret[p] = [kind |-> "return", b |-> FALSE, err |-> Nil]
            /\ qres[p].val = "-" =>
                   (ret[p].kind = "return" /\ ~ret[p].b /\ ret[p].err # Nil)
            /\ qres[p].val \notin {"", "-", "off"} =>
                   ret[p] = [kind |-> "return", b |-> TRUE, err |-> Nil]

\* one call has seen a cipher name and another one "-"
C4_Witness ==
    \E p, q \in Procs :
        /\ op[p] = "ZFSGetEncryptionEnabled" /\ qres[p] = [st |-> "ok", val |-> "aes-256-gcm"]
        /\ ret[p].kind = "return" /\ ret[p].b
        /\ op[q] = "ZFSGetEncryptionEnabled" /\ qres[q] = [st |-> "ok", val |-> "-"]
        /\ ret[q].kind = "return"

\* C5: after a successful `keystatus` query, ZFSGetKeyUnloaded returns
\* (false, nil) for "available", (true, nil) for "unavailable" and panics
\* for every other non-empty value; it returns true only for "unavailable".
C5_KeystatusValue ==
    \A p \in Procs :
        /\ (op[p] = "ZFSGetKeyUnloaded" /\ qres[p].st = "ok") =>
            /\ supported /\ err = Nil
            /\ qres[p].val = "available" =>
                   ret[p] = [kind |-> "return", b |-> FALSE, err |-> Nil]
            /\ qres[p].val = "unavailable" =>
                   ret[p] = [kind |-> "return", b |-> TRUE, err |-> Nil]
            /\ qres[p].val \notin {"", "available", "unavailable"} =>
                   (ret[p].kind = "panic" /\ Completed(p))
        /\ (op[p] = "ZFSGetKeyUnloaded" /\ ret[p].kind = "return" /\ ret[p].b) =>
               qres[p] = [st |-> "ok", val |-> "unavailable"]

\* one call has reported an unloaded key and another one has panicked on "-"
C5_Witness ==
    \E p, q \in Procs :
        /\ op[p] = "ZFSGetKeyUnloaded" /\ qres[p] = [st |-> "ok", val |-> "unavailable"]
        /\ ret[p].kind = "return" /\ ret[p].b
        /\ op[q] = "ZFSGetKeyUnloaded" /\ qres[q] = [st |-> "ok", val |-> "-"]
        /\ ret[q].kind = "panic"

\* the validation error ZFSGetEncryptionEnabled returns for the name f
ValidationFailure(f) ==
    [kind |-> "return", b |-> FALSE,
     err |-> DeferWrap("ZFSGetEncryptionEnabled", f, validateZFSFilesystem(f))]

\* C6 as stated: in every capability state, ZFSGetEncryptionEnabled fails
\* with a validation error for an invalid name, and issues no query.
C6_AsStated ==
    \A p \in Procs :
        (op[p] = "ZFSGetEncryptionEnabled" /\ fs[p] \in InvalidFs /\ Completed(p)) =>
            /\ ret[p] = ValidationFailure(fs[p])
            /\ nquery[p] = 0

\* C6: for an invalid name ZFSGetEncryptionEnabled issues no property query
\* in any capability state, and it fails with the validation error when the
\* capability is supported and the probe recorded no error.
C6_InvalidNameNoQuery ==
    \A p \in Procs :
        (op[p] = "ZFSGetEncryptionEnabled" /\ fs[p] \in InvalidFs) =>
            /\ pc[p] # "query" /\ nquery[p] = 0 /\ qres[p] = NoQuery
            /\ (Completed(p) /\ supported /\ err = Nil) =>
                   (validated[p] /\ ret[p] = ValidationFailure(fs[p]))

\* a call with an invalid name has failed validation under a supported capability
C6_Witness ==
    \E p \in Procs :
        /\ op[p] = "ZFSGetEncryptionEnabled" /\ fs[p] \in InvalidFs /\ pc[p] = "done"
        /\ supported /\ err = Nil
        /\ ret[p].err # Nil

\* the probe has completed, and its command failed with an error that is
\* not an *exec.ExitError
ProbeNotRun == once_done /\ prober # NoProc /\ cmderr[prober] \in {"spawn", "ctx"}

\* after such a failure both gate functions return the wrapped execution error
GatesReturnProbeError ==
    \A p \in Procs :
        PastGate(p) =>
            /\ pc[p] = "done"
            /\ ret[p] = GateReturn(op[p], fs[p], FALSE,
                                   Wrap(CmdErr(cmderr[prober]), ProbeMsg))

\* C7 as stated: after a non-exit probe failure both gate functions return
\* the wrapped execution error and the cached flag is not true, for every
\* override setting.
C7_AsStated == ProbeNotRun => (GatesReturnProbeError /\ ~supported)

\* C7: after a non-exit probe failure both gate functions return the
\* wrapped execution error for every override setting, and the cached flag
\* is true only when the override forces it to true.
C7_ProbeNotRun == ProbeNotRun => (GatesReturnProbeError /\ supported = (override = "true"))

\* both gate functions have returned the error of a probe that could not start
C7_Witness ==
    /\ ProbeNotRun /\ cmderr[prober] = "spawn"
    /\ \E p, q \in Procs :
        /\ op[p] = "ZFSGetEncryptionEnabled" /\ pc[p] = "done"
        /\ op[q] = "ZFSGetKeyUnloaded" /\ pc[q] = "done"

\* C8: the cached flag is the override whenever the override is set, and
\* otherwise it is true exactly when the probe output contains both
\* "load-key" and "keylocation"; a recorded hard error changes nothing.
C8_SupportedFlag ==
    ProbeStored =>
        supported = IF override = "unset"
                    THEN Contains(output[prober], "load-key")
                            /\ Contains(output[prober], "keylocation")
                    ELSE override = "true"

\* the flag was detected from the output of a command that a signal killed
C8_Witness ==
    /\ ProbeStored /\ once_done
    /\ override = "unset" /\ supported /\ err # Nil

\* C9: when a successful query yields the empty value, both gate functions
\* panic: nothing is returned through the (bool, error) channel.
C9_EmptyValuePanics ==
    \A p \in Procs :
        (op[p] \in Gates /\ qres[p] = [st |-> "ok", val |-> ""]) =>
            /\ supported /\ err = Nil
            /\ Completed(p)
            /\ ret[p].kind = "panic"

\* both gate functions have panicked on an empty value under a forced override
C9_Witness ==
    /\ override = "true"
    /\ \E p, q \in Procs :
        /\ op[p] = "ZFSGetEncryptionEnabled" /\ qres[p] = [st |-> "ok", val |-> ""]
        /\ op[q] = "ZFSGetKeyUnloaded" /\ qres[q] = [st |-> "ok", val |-> ""]
        /\ ret[p].kind = "panic" /\ ret[q].kind = "panic"

\* C10: a non-nil cached error makes both gate functions return
\* (false, error) without validating the name or querying, whether the
\* cached flag is true or false; (false, nil) by the unsupported
\* short-circuit is returned only when the cached error is nil.
C10_ErrorBeforeFlag ==
    \A p \in Procs :
        (PastGate(p) /\ err # Nil) =>
            /\ pc[p] = "done"
            /\ ret[p] = GateReturn(op[p], fs[p], FALSE, err)
            /\ ret[p].err # Nil
            /\ ~validated[p]
            /\ nquery[p] = 0

\* both gate functions have returned the error although the flag is false
C10_Witness ==
    /\ err # Nil /\ ~supported
    /\ \E p, q \in Procs :
        /\ op[p] = "ZFSGetEncryptionEnabled" /\ pc[p] = "done"
        /\ op[q] = "ZFSGetKeyUnloaded" /\ pc[q] = "done"

\* C11: the probe records a hard error exactly when the command did not end
\* with an exit status (it could not be started, or a signal ended it); a
\* command that ended with an exit status, zero or not, leaves the error nil.
C11_HardErrorIffNoExitStatus ==
    ProbeStored =>
        /\ err # Nil <=> cmderr[prober] \in {"signal", "spawn", "ctx"}
        /\ cmderr[prober] \in {"ok", "exit"} => err = Nil
        /\ err # Nil => err = <<ProbeMsg, cmderr[prober]>>

\* a command killed by a signal has left a hard error in the cache
C11_Witness == once_done /\ prober # NoProc /\ cmderr[prober] = "signal" /\ err # Nil

\* the first probe has completed and has recorded a hard error
ProbeFailed == once_done /\ err # Nil

\* what a completed call returns once the probe has failed
C12_Returned ==
    ProbeFailed =>
        /\ probes = 1
        /\ \A p \in Procs :
            Completed(p) =>
                ret[p] = IF op[p] = "EncryptionCLISupported"
                         THEN [kind |-> "return", b |-> supported, err |-> err]
                         ELSE [kind |-> "return", b |-> FALSE,
                               err |-> <<DeferMsg(op[p]), fs[p]>> \o err]

\* no step leaves the failed state, changes the error or starts a probe
C12_Step == ProbeFailed => (ProbeFailed' /\ err' = err /\ probes' = probes)

\* C12: once the first probe has recorded a hard error, every later call to
\* the three functions returns that error (the gate functions with their
\* own prefix), the probe is never run again and the error is never cleared.
C12_ErrorIsSticky == []C12_Returned /\ [][C12_Step]_vars

\* after a probe that failed on its caller's context, another goroutine has
\* made a later call and got the error
C12_Witness ==
    /\ ProbeFailed /\ prober # NoProc /\ cmderr[prober] = "ctx"
    /\ ncalls = 2
    /\ \E q \in Procs : q # prober /\ pc[q] = "done" /\ ret[q].err # Nil

\* the gate call of p passes the capability check and the name validation
PassesChecks(p) ==
    /\ op[p] \in Gates
    /\ supported /\ err = Nil
    /\ op[p] = "ZFSGetEncryptionEnabled" => fs[p] \in ValidFs

\* the answers that the two values v and w of a property must tell apart
Distinguished(o, v, w) ==
    IF o = "ZFSGetEncryptionEnabled"
    THEN v = "off" /\ w = "aes-256-gcm"
    ELSE v = "available" /\ w = "unavailable"

\* a call that passes the checks makes one query, and two calls for the
\* same dataset that saw different values give different answers
C13_Fresh ==
    /\ \A p \in Procs :
        (Completed(p) /\ PassesChecks(p)) => (nquery[p] = 1 /\ qres[p].st # "none")
    /\ \A p, q \in Procs :
        (/\ op[p] \in Gates /\ op[q] = op[p] /\ fs[q] = fs[p]
         /\ qres[p].st = "ok" /\ qres[q].st = "ok"
         /\ Distinguished(op[p], qres[p].val, qres[q].val)) =>
            /\ ret[p] = [kind |-> "return", b |-> FALSE, err |-> Nil]
            /\ ret[q] = [kind |-> "return", b |-> TRUE, err |-> Nil]

\* a step of a gate call after once.Do leaves the Capability State alone
C13_Frame ==
    (\E p \in Procs : op[p] \in Gates /\ pc[p] \in {"read", "query"} /\ pc'[p] # pc[p]) =>
        UNCHANGED <<once_done, once_m, supported, err>>

\* C13: no per-dataset result is cached: a gate call that passes the
\* capability check (and name validation) makes exactly one query and answers
\* from the value that query returned, so two calls for the same dataset
\* answer differently when the value changed in between; and no gate call
\* writes the Capability State.
C13_NoDatasetCache == []C13_Fresh /\ [][C13_Frame]_vars

\* two calls for the same dataset have given different answers
C13_Witness ==
    \E p, q \in Procs :
        /\ p # q
        /\ op[p] = "ZFSGetEncryptionEnabled" /\ op[q] = "ZFSGetEncryptionEnabled"
        /\ fs[p] = fs[q]
        /\ qres[p] = [st |-> "ok", val |-> "off"]
        /\ qres[q] = [st |-> "ok", val |-> "aes-256-gcm"]
        /\ pc[p] = "done" /\ pc[q] = "done" /\ ret[p].b # ret[q].b

\* the error a gate function returns for a failed query
QueryFailureReturned(o, f, st) ==
    <<DeferMsg(o), f,
      IF o = "ZFSGetEncryptionEnabled"
      THEN "cannot get encryption property"
      ELSE "cannot get keystatus property",
      IF st = "cancelled" THEN "context canceled" ELSE "zfs get failed">>

\* C14: when the property query fails, also by cancellation or timeout of
\* the context, the gate function returns (false, wrapped error) after one
\* query attempt: no retry, and the value is not interpreted.
C14_QueryFailurePropagated ==
    \A p \in Procs :
        (op[p] \in Gates /\ qres[p].st \in {"failed", "cancelled"}) =>
            /\ pc[p] = "done"
            /\ nquery[p] = 1
            /\ ret[p] = [kind |-> "return", b |-> FALSE,
                         err |-> QueryFailureReturned(op[p], fs[p], qres[p].st)]

\* both gate functions have returned a query failure, one of them a cancellation
C14_Witness ==
    \E p, q \in Procs :
        /\ op[p] = "ZFSGetEncryptionEnabled" /\ qres[p].st = "cancelled" /\ pc[p] = "done"
        /\ op[q] = "ZFSGetKeyUnloaded" /\ qres[q].st = "failed" /\ pc[q] = "done"

\* C15: for an invalid name and a supported capability, ZFSGetKeyUnloaded
\* returns a validation failure before any `keystatus` query is attempted,
\* as ZFSGetEncryptionEnabled does for `encryption`.
C15_KeyUnloadedValidates ==
    \A p \in Procs :
        (/\ op[p] = "ZFSGetKeyUnloaded" /\ fs[p] \in InvalidFs
         /\ PastGate(p) /\ supported /\ err = Nil) =>
            /\ pc[p] = "done"
            /\ nquery[p] = 0
            /\ ret[p] = [kind |-> "return", b |-> FALSE,
                         err |-> DeferWrap("ZFSGetKeyUnloaded", fs[p],
                                           validateZFSFilesystem(fs[p]))]

\* C16: a normal return of a gate function is (b, nil) or (false, error):
\* the boolean is never true together with a non-nil error.
C16_NoTrueWithError ==
    \A p \in Procs :
        (op[p] \in Gates /\ ret[p].kind = "return") =>
            (ret[p].err # Nil => ~ret[p].b)

\* one gate call has returned the error for "-" and another one (true, nil)
C16_Witness ==
    \E p, q \in Procs :
        /\ op[p] = "ZFSGetEncryptionEnabled" /\ qres[p] = [st |-> "ok", val |-> "-"]
        /\ ret[p].kind = "return" /\ ret[p].err # Nil /\ ~ret[p].b
        /\ op[q] = "ZFSGetKeyUnloaded"
        /\ ret[q] = [kind |-> "return", b |-> TRUE, err |-> Nil]

\* C17: the mutex of the once is held only by the goroutine that runs the
\* first probe: after the probe nobody holds it, so a gate call never holds
\* it during its query, and a pending query can always proceed, whatever
\* the other goroutines are doing.
C17_GuardOnlyDuringProbe ==
    /\ once_m # NoProc =>
           (~once_done /\ pc[once_m] \in {"probe", "seterr", "setsupp", "unlock"})
    /\ \A p \in Procs :
           pc[p] = "query" =>
               /\ once_done /\ once_m = NoProc
               /\ ~crashed => ENABLED Query(p)

\* two gate calls are at their query at the same time
C17_Witness ==
    \E p, q \in Procs :
        /\ p # q
        /\ pc[p] = "query" /\ pc[q] = "query"
        /\ fs[p] = fs[q]

\* the call of p is under way
InCall(p) ==
    pc[p] \in {"once", "lock", "probe", "seterr", "setsupp", "unlock", "read", "query"}

\* C18: when the probe subprocess and the queries terminate and scheduling
\* is fair, every call that has started ends, by a return or by a panic,
\* unless a panic of another goroutine has ended the whole process first:
\* nobody stays blocked on the once.
C18_EveryCallCompletes ==
    \A p \in Procs : InCall(p) ~> (Completed(p) \/ crashed)

\* every goroutine has got its result, also the one that did not run the probe
C18_Witness ==
    /\ once_done /\ prober # NoProc
    /\ \A p \in Procs : pc[p] = "done" /\ ret[p].kind = "return"
====
